---- MODULE Spec2Model ----
(***************************************************************************)
(* A model of the movie catalogue tools: catalog_fetcher.py (listings,     *)
(* their equivalence, filtering and the netflix merge) and imdb.py (the    *)
(* title index, its lookup and the threaded enhancement of entries).       *)
(*                                                                         *)
(* Python strings that the code inspects are sequences of one-character    *)
(* strings; identifiers the code only compares are TLA+ strings.  Python   *)
(* values whose type matters (a year may be an int, a str or None) are     *)
(* tagged records.                                                         *)
(***************************************************************************)
EXTENDS Integers, Sequences, FiniteSets, TLC

VARIABLES
    eqv,          \* is_equivalent : the two listings and the value returned
    mat,          \* matches       : the listing, the filters and the outcome
    mrg,          \* merge_netflix : movies1, movies2, movies_by_id, outcome
    ix,           \* ImdbMovieSet  : the store, the index built and a lookup
    id_to_movie,  \* enhance_movie_info: self.id_to_movie
    call,         \* enhance_movie_info: the running call (ids, position, ret)
    pool_sem,     \* enhance_movie_info: free slots of pool_sem
    workers,      \* enhance_movie_info: the threads of the running call
    history,      \* enhance_movie_info: calls made and fetches started
    nrm,          \* normalize_movie_name: the string given and those returned
    lst           \* source adapters: the record read and the listing made

vars == <<eqv, mat, mrg, ix, id_to_movie, call, pool_sem, workers, history,
          nrm, lst>>

-----------------------------------------------------------------------------
(* Python values *)

IntV(n) == [t |-> "int", v |-> n]
StrV(s) == [t |-> "str", v |-> s]
NoneV == [t |-> "none", v |-> 0]

\* Python's == on values of the kinds above: an int never equals a str.
PyEq(x, y) == x.t = y.t /\ x.v = y.v

\* Python's truth value: None, 0 and '' are false.
Truthy(x) ==
    CASE x.t = "none" -> FALSE
      [] x.t = "int" -> x.v # 0
      [] x.t = "str" -> x.v # <<>>

-----------------------------------------------------------------------------
(* Characters and normalize_movie_name *)

LowerLetters == {"a", "b"}
UpperLetters == {"A", "B"}
Digits == {"1", "2"}

\* str.lower() on one character.
LowerChar(c) ==
    CASE c = "A" -> "a"
      [] c = "B" -> "b"
      [] OTHER -> c

\* The class [\W_] of the first re.sub: everything but letters and digits.
IsNonWordOrUnderscore(c) == c \notin (LowerLetters \cup UpperLetters \cup Digits)

IsSpace(c) == c = " "

RECURSIVE LowerStr(_)
LowerStr(s) ==
    IF s = <<>> THEN <<>> ELSE <<LowerChar(Head(s))>> \o LowerStr(Tail(s))

\* re.sub(<class>+, ' ', s): every maximal run of the class becomes one space.
RECURSIVE SubRuns(_, _)
SubRuns(s, inRun) ==
    IF s = <<>> THEN <<>>
    ELSE IF IsNonWordOrUnderscore(Head(s))
         THEN (IF inRun THEN <<>> ELSE <<" ">>) \o SubRuns(Tail(s), TRUE)
         ELSE <<Head(s)>> \o SubRuns(Tail(s), FALSE)

\* re.sub(r' +', ' ', s)
RECURSIVE SubSpaces(_, _)
SubSpaces(s, inRun) ==
    IF s = <<>> THEN <<>>
    ELSE IF IsSpace(Head(s))
         THEN (IF inRun THEN <<>> ELSE <<" ">>) \o SubSpaces(Tail(s), TRUE)
         ELSE <<Head(s)>> \o SubSpaces(Tail(s), FALSE)

RECURSIVE LStrip(_)
LStrip(s) == IF s # <<>> /\ IsSpace(Head(s)) THEN LStrip(Tail(s)) ELSE s

RECURSIVE RStrip(_)
RStrip(s) ==
    IF s # <<>> /\ IsSpace(s[Len(s)]) THEN RStrip(SubSeq(s, 1, Len(s) - 1)) ELSE s

Strip(s) == RStrip(LStrip(s))

\* The same steps with strip() taken first.
normalize_strip_first(inp) ==
    SubSpaces(SubRuns(Strip(LowerStr(inp)), FALSE), FALSE)

normalize_movie_name(inp) ==
    Strip(SubSpaces(SubRuns(LowerStr(inp), FALSE), FALSE))

StartsWith(s, prefix) ==
    Len(s) >= Len(prefix) /\ SubSeq(s, 1, Len(prefix)) = prefix

\* The elements of a sequence, and the sequences over S of length at most n.
Range(s) == {s[i] : i \in 1..Len(s)}
SeqsUpTo(S, n) == UNION {[1..k -> S] : k \in 0..n}

-----------------------------------------------------------------------------
(* imdb.py: ImdbMovieInfo, and catalog_fetcher.py: PlatformId, MovieInfo *)

NETFLIX == "netflix"
AMAZON_PRIME == "amazon_prime"

\* d[k] = v on a dict kept as a function.
SetItem(d, k, v) == [x \in DOMAIN d \cup {k} |-> IF x = k THEN v ELSE d[x]]

EmptyDict == [x \in {} |-> 0]

\* ImdbMovieInfo(imdb_id=..., titles=..., year=...) with the attrs defaults.
ImdbMovieInfo(imdb_id, titles, year) ==
    [imdb_id |-> imdb_id, titles |-> titles, year |-> year,
     enhanced |-> FALSE, enhancement_error |-> FALSE,
     languages |-> {}, regions |-> {}, detail |-> EmptyDict]

PlatformId(platform, value) == [platform |-> platform, value |-> value]

\* str(p) of the attrs class: its repr, which spells out both fields.
PlatformIdStr(p) ==
    <<"PlatformId(platform='", p.platform, "', value='">> \o p.value \o <<"')">>

\* MovieInfo(name=..., src_to_raw_entry=..., release_yr=..., platforms=...).
\* src_to_raw_entry is a dict: a sequence of <<source, raw entry>> in
\* insertion order, each source once.
MovieInfo(name, src_to_raw_entry, release_yr, platforms) ==
    [name |-> name, languages |-> {}, regions |-> {}, imdb |-> <<>>,
     platforms |-> platforms, release_yr |-> release_yr,
     src_to_raw_entry |-> src_to_raw_entry]

ImdbIds(m) == {m.imdb[i].imdb_id : i \in 1..Len(m.imdb)}

\* is_equivalent comparing the names as spelled, without normalizing them.
is_equivalent_raw_names(self, other) ==
    LET self_imdbs == ImdbIds(self)
        other_imdbs == ImdbIds(other)
        other_platforms == {PlatformIdStr(p) : p \in Range(other.platforms)}
        self_platforms == {PlatformIdStr(p) : p \in Range(self.platforms)}
    IN  IF self_imdbs = other_imdbs /\ Cardinality(self_imdbs) = 0 THEN TRUE
        ELSE IF other_platforms \cap self_platforms # {} THEN TRUE
        ELSE /\ self.name = other.name
             /\ PyEq(self.release_yr, other.release_yr)

is_equivalent(self, other) ==
    LET self_imdbs == ImdbIds(self)
        other_imdbs == ImdbIds(other)
        other_platforms == {PlatformIdStr(p) : p \in Range(other.platforms)}
        self_platforms == {PlatformIdStr(p) : p \in Range(self.platforms)}
    IN  IF self_imdbs = other_imdbs /\ Cardinality(self_imdbs) = 0 THEN TRUE
        ELSE IF other_platforms \cap self_platforms # {} THEN TRUE
        ELSE /\ normalize_movie_name(self.name) = normalize_movie_name(other.name)
             /\ PyEq(self.release_yr, other.release_yr)

\* A language filter is None or a set of language codes.
NoLanguages == [t |-> "none", v |-> {}]
LanguageSet(S) == [t |-> "set", v |-> S]
LanguagesTruthy(l) == l.t = "set" /\ l.v # {}

\* matches: the assert raises when neither filter is supplied; otherwise the
\* conjunction of the two checks is returned.
matches(self, languages, release_yr) ==
    IF ~(LanguagesTruthy(languages) \/ release_yr.t # "none")
    THEN [exc |-> "AssertionError", val |-> FALSE]
    ELSE LET langs == IF LanguagesTruthy(languages) THEN languages.v ELSE {}
             lang_check == langs = {} \/ langs \cap self.languages # {}
             release_yr_check ==
                 \/ ~Truthy(release_yr)
                 \/ PyEq(release_yr, self.release_yr)
                 \/ /\ PyEq(self.release_yr, IntV(-1))
                    /\ \E i \in 1..Len(self.imdb) : PyEq(release_yr, self.imdb[i].year)
         IN  [exc |-> "", val |-> lang_check /\ release_yr_check]

\* Python dicts, as sequences of [key, val] in insertion order.
DictIndex(d, k) ==
    IF \E i \in 1..Len(d) : d[i].key = k
    THEN CHOOSE i \in 1..Len(d) : d[i].key = k
    ELSE 0

DictHas(d, k) == DictIndex(d, k) # 0
DictGet(d, k) == d[DictIndex(d, k)].val
DictKeys(d) == {d[i].key : i \in 1..Len(d)}
DictValues(d) == [i \in 1..Len(d) |-> d[i].val]

\* d[k] = v: an existing key keeps its place and takes the new value.
DictPut(d, k, v) ==
    IF DictHas(d, k)
    THEN [d EXCEPT ![DictIndex(d, k)].val = v]
    ELSE Append(d, [key |-> k, val |-> v])

\* An update that adds nothing to d.
DictUpdateNothing(d, e) == d

\* d.update(e)
RECURSIVE DictUpdate(_, _)
DictUpdate(d, e) ==
    IF e = <<>> THEN d
    ELSE DictUpdate(DictPut(d, Head(e).key, Head(e).val), Tail(e))

NetflixTitleUrl(id) == StrV(<<"https://www.netflix.com/title/">> \o id)

Slug == <<"s", "l", "u", "g">>

\* The first netflix platform id that is not a slug, else the first truthy
\* netflixid of a raw entry (v.get('netflixid') is None when the key is
\* missing), else None.
get_netflix_url(self) ==
    LET ps == {i \in 1..Len(self.platforms) :
                 /\ self.platforms[i].platform = NETFLIX
                 /\ ~StartsWith(self.platforms[i].value, Slug)}
        vs == {i \in 1..Len(self.src_to_raw_entry) :
                 Truthy(self.src_to_raw_entry[i].val.netflixid)}
        Min(S) == CHOOSE i \in S : \A j \in S : i <= j
    IN  IF ps # {} THEN NetflixTitleUrl(self.platforms[Min(ps)].value)
        ELSE IF vs # {}
             THEN NetflixTitleUrl(self.src_to_raw_entry[Min(vs)].val.netflixid.v)
             ELSE NoneV

\* {m.get_netflix_url(): m for m in movies1 if m.get_netflix_url()}
RECURSIVE MoviesById(_, _)
MoviesById(d, movies1) ==
    IF movies1 = <<>> THEN d
    ELSE LET m == Head(movies1)
             d1 == IF Truthy(get_netflix_url(m))
                   THEN DictPut(d, get_netflix_url(m), m)
                   ELSE d
         IN  MoviesById(d1, Tail(movies1))

\* The loop over movies2, which ends in the assert or in the return.
RECURSIVE MergeLoop(_, _)
MergeLoop(movies_by_id, movies2) ==
    IF movies2 = <<>>
    THEN [exc |-> "", returned |-> TRUE, val |-> DictValues(movies_by_id),
          movies_by_id |-> movies_by_id]
    ELSE LET m == Head(movies2)
             nurl == get_netflix_url(m)
         IN  IF ~Truthy(nurl)
             THEN [exc |-> "AssertionError", returned |-> FALSE, val |-> <<>>,
                   movies_by_id |-> movies_by_id]
             ELSE IF ~DictHas(movies_by_id, nurl)
             THEN MergeLoop(DictPut(movies_by_id, nurl, m), Tail(movies2))
             ELSE LET existing == DictGet(movies_by_id, nurl)
                      merged == [existing EXCEPT !.src_to_raw_entry =
                                    DictUpdate(existing.src_to_raw_entry,
                                               m.src_to_raw_entry)]
                  IN  MergeLoop(DictPut(movies_by_id, nurl, merged), Tail(movies2))

\* A loop over movies2 that skips a listing without a key instead of failing.
RECURSIVE MergeLoopSkipping(_, _)
MergeLoopSkipping(movies_by_id, movies2) ==
    IF movies2 = <<>> \/ Truthy(get_netflix_url(Head(movies2)))
    THEN IF movies2 = <<>> THEN MergeLoop(movies_by_id, <<>>)
         ELSE MergeLoopSkipping(
                  MergeLoop(movies_by_id, <<Head(movies2)>>).movies_by_id,
                  Tail(movies2))
    ELSE MergeLoopSkipping(movies_by_id, Tail(movies2))

merge_netflix_skipping(movies1, movies2) ==
    MergeLoopSkipping(MoviesById(<<>>, movies1), movies2)

merge_netflix(movies1, movies2) == MergeLoop(MoviesById(<<>>, movies1), movies2)

-----------------------------------------------------------------------------
(* Sample data the specifications draw their inputs from *)

Off == [pc |-> "off"]

Y2019 == <<"2", "0", "1", "9">>

\* Titles as the sources spell them: "a b", "A-b", "ab", "_b ".
SampleTitles ==
    {<<"a", " ", "b">>, <<"A", "-", "b">>, <<"a", "b">>, <<"_", "b", " ">>}

\* A listing's year: an int from finder and reelgood (-1 when unknown), the
\* feed's own string from whats-on-netflix.
SampleYears == {IntV(-1), IntV(2019), StrV(Y2019)}

\* Canonical entries: the year is the dataset's string, or an int when the
\* stored record holds one.
Entry1 == ImdbMovieInfo("tt1", {<<"a", " ", "b">>}, StrV(Y2019))
Entry2 == ImdbMovieInfo("tt2", {<<"A", "-", "b">>, <<"a", "b">>}, IntV(2019))
Entry3 == ImdbMovieInfo("tt3", {<<"b">>}, IntV(-1))

SampleImdbLists == {<<>>, <<Entry1>>, <<Entry2>>, <<Entry1, Entry2>>, <<Entry3>>}

Netflix1 == PlatformId(NETFLIX, <<"1">>)
Netflix2 == PlatformId(NETFLIX, <<"2">>)
Amazon1 == PlatformId(AMAZON_PRIME, <<"1">>)

SamplePlatformLists == {<<>>, <<Netflix1>>, <<Amazon1>>, <<Netflix1, Netflix2>>}

\* A listing after update_imdb: the matched entries are attached.
ResolvedListing(name, release_yr, platforms, imdb, languages) ==
    [MovieInfo(name, <<>>, release_yr, platforms)
        EXCEPT !.imdb = imdb, !.languages = languages]

-----------------------------------------------------------------------------
(* is_equivalent on two listings *)

InitEquiv ==
    /\ eqv \in {[pc |-> "ready", result |-> FALSE,
                 a |-> ResolvedListing(n1, y1, p1, i1, {}),
                 b |-> ResolvedListing(n2, y2, p2, i2, {})] :
                  n1 \in SampleTitles, n2 \in SampleTitles,
                  y1 \in SampleYears, y2 \in SampleYears,
                  p1 \in SamplePlatformLists, p2 \in SamplePlatformLists,
                  i1 \in SampleImdbLists, i2 \in SampleImdbLists}
    /\ mat = Off /\ mrg = Off /\ ix = Off
    /\ id_to_movie = Off /\ call = Off /\ pool_sem = 0
    /\ workers = <<>> /\ history = Off
    /\ nrm = Off /\ lst = Off

EquivCall ==
    /\ eqv.pc = "ready"
    /\ eqv' = [eqv EXCEPT !.pc = "done", !.result = is_equivalent(eqv.a, eqv.b)]
    /\ UNCHANGED <<mat, mrg, ix, id_to_movie, call, pool_sem, workers, history, nrm, lst>>

NextEquiv == EquivCall

SpecEquiv == InitEquiv /\ [][NextEquiv]_vars

PlatformIdSet(m) == Range(m.platforms)

SameNameAndYear(a, b) ==
    /\ normalize_movie_name(a.name) = normalize_movie_name(b.name)
    /\ PyEq(a.release_yr, b.release_yr)

\* C1: two listings whose matched canonical-entry ids share an id are
\* equivalent, whatever their names, years and platform ids.
C1_SharedEntryIsEquivalent ==
    (eqv.pc = "done" /\ ImdbIds(eqv.a) \cap ImdbIds(eqv.b) # {})
        => eqv.result = TRUE

\* C2 as stated: with disjoint matched-entry ids and disjoint platform ids,
\* is_equivalent is true exactly when normalized name and year agree.
C2_Original ==
    (/\ eqv.pc = "done"
     /\ ImdbIds(eqv.a) \cap ImdbIds(eqv.b) = {}
     /\ PlatformIdSet(eqv.a) \cap PlatformIdSet(eqv.b) = {})
        => (eqv.result = SameNameAndYear(eqv.a, eqv.b))

\* C2 (amended): for two listings that are not both without matched entries,
\* with disjoint matched-entry ids and disjoint platform ids, is_equivalent is
\* true exactly when the normalized names are equal and the years are equal.
C2_NameAndYearDecide ==
    (/\ eqv.pc = "done"
     /\ ~(ImdbIds(eqv.a) = {} /\ ImdbIds(eqv.b) = {})
     /\ ImdbIds(eqv.a) \cap ImdbIds(eqv.b) = {}
     /\ PlatformIdSet(eqv.a) \cap PlatformIdSet(eqv.b) = {})
        => (eqv.result = SameNameAndYear(eqv.a, eqv.b))

\* A resolved pair with disjoint ids and platforms, spelled differently but
\* normalizing to the same name, of the same year: found equivalent.
C2_Witness ==
    /\ eqv.pc = "done"
    /\ ImdbIds(eqv.a) # {} /\ ImdbIds(eqv.b) # {}
    /\ ImdbIds(eqv.a) \cap ImdbIds(eqv.b) = {}
    /\ PlatformIdSet(eqv.a) # {} /\ PlatformIdSet(eqv.b) # {}
    /\ PlatformIdSet(eqv.a) \cap PlatformIdSet(eqv.b) = {}
    /\ eqv.a.name # eqv.b.name
    /\ eqv.result = TRUE

-----------------------------------------------------------------------------
(* matches on a listing *)

SampleListingLanguages == {{}, {"en", "fr"}, {"hi"}}

\* The filters main() can pass: --lang absent gives set(), --year is an int
\* or None.
SampleLanguageFilters ==
    {NoLanguages, LanguageSet({}), LanguageSet({"en"}), LanguageSet({"hi", "ta"})}

SampleYearFilters == {NoneV, IntV(0), IntV(-1), IntV(2019), IntV(2020)}

InitMatches ==
    /\ mat \in {[pc |-> "ready", result |-> [exc |-> "", val |-> FALSE],
                 listing |-> ResolvedListing(<<"a">>, y, <<>>, i, l),
                 languages |-> fl, release_yr |-> fy] :
                  y \in SampleYears \cup {IntV(2020)}, i \in SampleImdbLists,
                  l \in SampleListingLanguages,
                  fl \in SampleLanguageFilters, fy \in SampleYearFilters}
    /\ eqv = Off /\ mrg = Off /\ ix = Off
    /\ id_to_movie = Off /\ call = Off /\ pool_sem = 0
    /\ workers = <<>> /\ history = Off
    /\ nrm = Off /\ lst = Off

MatchesCall ==
    /\ mat.pc = "ready"
    /\ mat' = [mat EXCEPT !.pc = "done",
                          !.result = matches(mat.listing, mat.languages, mat.release_yr)]
    /\ UNCHANGED <<eqv, mrg, ix, id_to_movie, call, pool_sem, workers, history, nrm, lst>>

NextMatches == MatchesCall

SpecMatches == InitMatches /\ [][NextMatches]_vars

LanguageFilterGiven(l) == l.t = "set" /\ l.v # {}
YearFilterGiven(y) == y.t # "none"

\* C9: with at least one filter supplied, matches is true exactly when (no
\* language filter is given or the listing's languages meet it) and (no year
\* filter is given, or the listing's year equals it, or the listing's year is
\* -1 and the filter year is the year of a matched entry), for every integer
\* filter year.
C9_MatchesIsFilterConjunction ==
    (/\ mat.pc = "done"
     /\ LanguageFilterGiven(mat.languages) \/ YearFilterGiven(mat.release_yr))
        => /\ mat.result.exc = ""
           /\ mat.result.val =
                (/\ \/ ~LanguageFilterGiven(mat.languages)
                    \/ mat.languages.v \cap mat.listing.languages # {}
                 /\ \/ ~YearFilterGiven(mat.release_yr)
                    \/ PyEq(mat.listing.release_yr, mat.release_yr)
                    \/ /\ PyEq(mat.listing.release_yr, IntV(-1))
                       /\ \E e \in Range(mat.listing.imdb) :
                              PyEq(e.year, mat.release_yr))

-----------------------------------------------------------------------------
(* merge_netflix on two lists of listings *)

WON == "whats-on-netflix.com"
FINDER == "finder.com:netflix"

\* A raw entry: its netflixid (None when the source has no such key) and the
\* rest of the record, which the merge only carries along.
RawEntry(netflixid, rest) == [netflixid |-> netflixid, rest |-> rest]

\* A listing as a source adapter builds it: one platform id and one raw
\* entry under the source's name.  from_whats_on_netflix copies the feed's
\* year string and puts the same netflixid in both places; from_finder takes
\* the platform id from the watch link and its table row has no netflixid.
SourceListing(src, title, year, platform_value, netflixid, rest) ==
    MovieInfo(title, <<[key |-> src, val |-> RawEntry(netflixid, rest)]>>,
              year, <<PlatformId(NETFLIX, platform_value)>>)

SlugA == Slug \o <<"_", "a">>
SlugB == Slug \o <<"_", "b">>

\* get_netflix_all merges the whats-on-netflix listings (movies1) with the
\* finder listings (movies2).  Each pool has two listings of one platform id,
\* a listing known by a slug whose raw entry gives the id, and a listing
\* with neither.
SampleMovies1 ==
    {SourceListing(WON, <<"a", " ", "b">>, StrV(Y2019), <<"1">>, StrV(<<"1">>), "won-1"),
     SourceListing(WON, <<"a", "b">>, StrV(Y2019), <<"1">>, StrV(<<"1">>), "won-1-again"),
     SourceListing(WON, <<"b">>, StrV(Y2019), <<"2">>, StrV(<<"2">>), "won-2"),
     SourceListing(WON, <<"a">>, StrV(Y2019), SlugA, StrV(<<"1">>), "won-slug-1"),
     SourceListing(WON, <<"b">>, StrV(<<>>), SlugB, NoneV, "won-slug-none")}

SampleMovies2 ==
    {SourceListing(FINDER, <<"A", "-", "b">>, IntV(2019), <<"1">>, NoneV, "finder-1"),
     SourceListing(FINDER, <<"a", "_", "b">>, IntV(-1), <<"1">>, NoneV, "finder-1-again"),
     SourceListing(FINDER, <<"B">>, IntV(2019), <<"3">>, NoneV, "finder-3"),
     SourceListing(FINDER, <<"b">>, IntV(2019), SlugA, StrV(<<"2">>), "finder-slug-2"),
     SourceListing(FINDER, <<"b">>, IntV(2019), SlugB, NoneV, "finder-slug-none")}

MaxMovies == 2

InitMerge ==
    /\ mrg \in {[pc |-> "ready", movies1 |-> m1, movies2 |-> m2,
                 result |-> [exc |-> "", returned |-> FALSE, val |-> <<>>,
                             movies_by_id |-> <<>>]] :
                  m1 \in SeqsUpTo(SampleMovies1, MaxMovies),
                  m2 \in SeqsUpTo(SampleMovies2, MaxMovies)}
    /\ eqv = Off /\ mat = Off /\ ix = Off
    /\ id_to_movie = Off /\ call = Off /\ pool_sem = 0
    /\ workers = <<>> /\ history = Off
    /\ nrm = Off /\ lst = Off

MergeCall ==
    /\ mrg.pc = "ready"
    /\ mrg' = [mrg EXCEPT !.pc = "done",
                          !.result = merge_netflix(mrg.movies1, mrg.movies2)]
    /\ UNCHANGED <<eqv, mat, ix, id_to_movie, call, pool_sem, workers, history, nrm, lst>>

NextMerge == MergeCall

SpecMerge == InitMerge /\ [][NextMerge]_vars

\* The platform key of a listing, and whether one can be derived at all: a
\* netflix platform id that is no slug, or a netflixid in a raw record.
PlatformKey(m) == get_netflix_url(m)

HasKey(m) ==
    \/ \E p \in Range(m.platforms) :
          p.platform = NETFLIX /\ ~StartsWith(p.value, Slug)
    \/ \E r \in Range(m.src_to_raw_entry) :
          r.val.netflixid.t = "str" /\ r.val.netflixid.v # <<>>

Sources(m) == {r.key : r \in Range(m.src_to_raw_entry)}
RawOf(m, src) == (CHOOSE r \in Range(m.src_to_raw_entry) : r.key = src).val
SameButRaw(m, n) ==
    [m EXCEPT !.src_to_raw_entry = <<>>] = [n EXCEPT !.src_to_raw_entry = <<>>]

KeyedOf(movies) == {m \in Range(movies) : HasKey(m)}
WithKey(movies, k) == {m \in Range(movies) : PlatformKey(m) = k}

\* C3: a returned merge holds exactly one listing per distinct platform key
\* of the two lists; for a key carried by a listing of A and a listing of B
\* that one listing has a raw record under every source of both, each a
\* record of a listing of that key; and for a key absent from A the listing
\* is one of B's.
C3_OneListingPerKey ==
    (mrg.pc = "done" /\ mrg.result.returned) =>
        LET A == mrg.movies1
            B == mrg.movies2
            out == mrg.result.val
            keys == {PlatformKey(m) : m \in KeyedOf(A) \cup KeyedOf(B)}
        IN  /\ Len(out) = Cardinality(keys)
            /\ \A k \in keys :
                 \E i \in 1..Len(out) :
                    /\ PlatformKey(out[i]) = k
                    /\ \A j \in 1..Len(out) : PlatformKey(out[j]) = k => j = i
                    /\ (WithKey(A, k) # {} /\ WithKey(B, k) # {}) =>
                         /\ \A m \in WithKey(A, k) \cup WithKey(B, k) :
                               Sources(m) \subseteq Sources(out[i])
                         /\ \A src \in Sources(out[i]) :
                               \E m \in WithKey(A, k) \cup WithKey(B, k) :
                                  src \in Sources(m) /\ RawOf(m, src) = RawOf(out[i], src)
                    /\ WithKey(A, k) = {} =>
                         \E m \in WithKey(B, k) : SameButRaw(out[i], m)

\* A merge that returned, where a listing of B joined a listing of A of
\* another source under one key and another listing of B came in new.
C3_Witness ==
    /\ mrg.pc = "done" /\ mrg.result.returned
    /\ Len(mrg.movies1) = 2 /\ Len(mrg.movies2) = 2
    /\ Len(mrg.result.val) = 2
    /\ \E a \in Range(mrg.movies1), b \in Range(mrg.movies2) :
          /\ HasKey(a) /\ PlatformKey(a) = PlatformKey(b)
          /\ Sources(a) \cap Sources(b) = {}
          /\ \E o \in Range(mrg.result.val) : Sources(o) = Sources(a) \cup Sources(b)
    /\ \E b \in Range(mrg.movies2) : HasKey(b) /\ WithKey(mrg.movies1, PlatformKey(b)) = {}

\* C4: the merge fails with the assertion, returning no list, whenever a
\* listing of B has no derivable platform key, and only then.
C4_KeylessFails ==
    mrg.pc = "done" =>
        /\ (\E m \in Range(mrg.movies2) : ~HasKey(m))
              <=> (mrg.result.exc = "AssertionError")
        /\ mrg.result.exc = "AssertionError"
              => (~mrg.result.returned /\ mrg.result.val = <<>>)
        /\ mrg.result.exc = "" => mrg.result.returned

\* The assertion struck on the second listing of B, after a first listing
\* of B with a key, with A not empty.
C4_Witness ==
    /\ mrg.pc = "done"
    /\ mrg.result.exc = "AssertionError"
    /\ Len(mrg.movies1) > 0 /\ Len(mrg.movies2) = 2
    /\ HasKey(mrg.movies2[1]) /\ ~HasKey(mrg.movies2[2])

\* The listings of A with a key followed by those of B, in the order the
\* merge meets them, and the first of them under key k.
RECURSIVE KeyedSeq(_)
KeyedSeq(movies) ==
    IF movies = <<>> THEN <<>>
    ELSE (IF HasKey(Head(movies)) THEN <<Head(movies)>> ELSE <<>>)
            \o KeyedSeq(Tail(movies))

FirstSeen(seq, k) ==
    seq[CHOOSE i \in 1..Len(seq) :
           /\ PlatformKey(seq[i]) = k
           /\ \A j \in 1..(i - 1) : PlatformKey(seq[j]) # k]

\* C12: the listing returned for a key is the first one met under that key,
\* with its name, year, platform ids and matched entries as they were, and
\* every raw record it came with is still on it unchanged.
C12_KeepsFirstSeen ==
    (mrg.pc = "done" /\ mrg.result.returned) =>
        LET seq == KeyedSeq(mrg.movies1) \o mrg.movies2
            out == mrg.result.val
        IN  \A i \in 1..Len(out) :
               LET first == FirstSeen(seq, PlatformKey(out[i]))
               IN  /\ SameButRaw(out[i], first)
                   /\ \A src \in Sources(first) :
                         /\ src \in Sources(out[i])
                         /\ RawOf(out[i], src) = RawOf(first, src)

-----------------------------------------------------------------------------
(* imdb.py: building an ImdbMovieSet and lookup_movie *)

NullField == <<"\\", "N">>

\* A row of title.basics.tsv and a row of title.akas.tsv.
BasicsRow(tconst, titleType, primaryTitle, originalTitle, startYear) ==
    [tconst |-> tconst, titleType |-> titleType, primaryTitle |-> primaryTitle,
     originalTitle |-> originalTitle, startYear |-> startYear]

AkasRow(titleId, title, region, language) ==
    [titleId |-> titleId, title |-> title, region |-> region, language |-> language]

\* _get_imdb_titles, first scan: one entry per row of type movie.
RECURSIVE ScanBasics(_, _)
ScanBasics(ret, rows) ==
    IF rows = <<>> THEN ret
    ELSE LET row == Head(rows)
         IN  ScanBasics(
                 IF row.titleType = "movie"
                 THEN SetItem(ret, row.tconst,
                              ImdbMovieInfo(row.tconst,
                                            {row.primaryTitle, row.originalTitle},
                                            StrV(row.startYear)))
                 ELSE ret,
                 Tail(rows))

\* _get_imdb_titles, second scan: the aka rows of known ids add a title and,
\* unless '\N', a language and a region.
RECURSIVE ScanAkas(_, _)
ScanAkas(ret, rows) ==
    IF rows = <<>> THEN ret
    ELSE LET row == Head(rows)
         IN  ScanAkas(
                 IF row.titleId \in DOMAIN ret
                 THEN LET movie == ret[row.titleId]
                      IN  SetItem(ret, row.titleId,
                            [movie EXCEPT
                               !.titles = @ \cup {row.title},
                               !.languages = IF row.language # NullField
                                             THEN @ \cup {row.language} ELSE @,
                               !.regions = IF row.region # NullField
                                           THEN @ \cup {row.region} ELSE @])
                 ELSE ret,
                 Tail(rows))

get_imdb_titles(basics, akas) == ScanAkas(ScanBasics(EmptyDict, basics), akas)

\* attr.asdict turns a set into a list; json keeps the list.
RECURSIVE AsList(_)
AsList(S) ==
    IF S = {} THEN <<>>
    ELSE LET x == CHOOSE y \in S : TRUE IN <<x>> \o AsList(S \ {x})

\* json.dumps(attr.asdict(movie))
AsJson(movie) ==
    [movie EXCEPT !.titles = AsList(@), !.languages = AsList(@),
                  !.regions = AsList(@)]

\* ImdbMovieInfo(**json.loads(data)).ensure_types(): the three lists become
\* sets again.
FromJson(data) ==
    [data EXCEPT !.titles = Range(@), !.languages = Range(@), !.regions = Range(@)]

\* insert_movie_queries: the data record and the norm_title lookup records
\* of the titles that do not normalize to the empty string.  (The region and
\* lang lookup records are written too; no query of the program reads them.)
NormTitleRecords(movie) ==
    LET norm_titles == {nt \in {normalize_movie_name(title) : title \in movie.titles} :
                          nt # <<>>}
    IN  {<<movie.imdb_id, normalize_movie_name(norm_title), "norm_title">> :
            norm_title \in norm_titles}

OtherLookupRecords(movie) ==
    {<<movie.imdb_id, region, "region">> : region \in movie.regions}
        \cup {<<movie.imdb_id, lang, "lang">> : lang \in movie.languages}

\* write_to_sqlite(): every movie of the set is upserted.
write_to_sqlite(db, movies) ==
    [imdb |-> [id \in DOMAIN db.imdb \cup DOMAIN movies |->
                  IF id \in DOMAIN movies THEN AsJson(movies[id]) ELSE db.imdb[id]],
     imdb_lookup |-> db.imdb_lookup
         \cup UNION {NormTitleRecords(movies[id]) \cup OtherLookupRecords(movies[id]) :
                        id \in DOMAIN movies}]

EmptyDb == [imdb |-> EmptyDict, imdb_lookup |-> {}]

\* MOVIE_NAME_TO_MOVIES for one lookup key.
MovieNameToMovies(db, name) ==
    {db.imdb[id] : id \in {i \in DOMAIN db.imdb :
                             <<i, name, "norm_title">> \in db.imdb_lookup}}

\* fetch_movies_from_name: the stored movies reached by the normalized names.
fetch_movies_from_name(db, names) ==
    LET norm_names == {normalize_movie_name(name) : name \in Range(names)}
        rows == UNION {MovieNameToMovies(db, name) : name \in norm_names}
    IN  [id \in {row.imdb_id : row \in rows} |->
            FromJson(CHOOSE row \in rows : row.imdb_id = id)]

\* name_to_id as __init__ builds it, keyed by the raw titles.
NameToIdRawTitles(movies) ==
    LET keys == UNION {movies[id].titles : id \in DOMAIN movies}
    IN  [k \in keys |-> {id \in DOMAIN movies : k \in movies[id].titles}]

\* __init__: name_to_id[normalize_movie_name(title)].add(imdb_id)
NameToId(movies) ==
    LET keys == {normalize_movie_name(title) :
                    title \in UNION {movies[id].titles : id \in DOMAIN movies}}
    IN  [k \in keys |->
            {id \in DOMAIN movies :
                \E title \in movies[id].titles : normalize_movie_name(title) = k}]

\* lookup_movie; the list is in the set's iteration order, so it is kept as
\* the set of the entries returned.
lookup_movie(movies, name_to_id, name) ==
    LET norm == normalize_movie_name(name)
        ids == IF norm \in DOMAIN name_to_id THEN name_to_id[norm] ELSE {}
    IN  {movies[imdb_id] : imdb_id \in ids}

SampleBasics ==
    {BasicsRow("tt1", "movie", <<"a", " ", "b">>, <<"A", "-", "b">>, Y2019),
     BasicsRow("tt2", "movie", <<"a", "b">>, <<"a", "b">>, NullField),
     BasicsRow("tt3", "short", <<"b">>, <<"b">>, Y2019)}

SampleAkas ==
    {AkasRow("tt1", <<"a", "b">>, <<"I", "N">>, <<"h", "i">>),
     AkasRow("tt2", <<"A", "_", "b">>, NullField, NullField),
     AkasRow("tt2", <<"-">>, <<"U", "S">>, NullField),
     AkasRow("tt3", <<"a", " ", "b">>, <<"U", "S">>, <<"e", "n">>)}

\* The names a scoped index is built from, and the names looked up.
SampleNameLists ==
    {<<>>, <<<<"a", " ", "b">>>>, <<<<"A", "B">>, <<"a", "-", "b">>>>, <<<<"_">>>>}

SampleQueries == {<<"a", "_", "_", "B">>, <<"a", "b">>, <<"!">>, <<"b">>}

MaxRows == 2

InitIndex ==
    /\ ix \in {[pc |-> "files", basics |-> bs, akas |-> as, db |-> EmptyDb,
                mode |-> "", id_to_movie |-> EmptyDict, name_to_id |-> EmptyDict,
                query |-> <<>>, result |-> {}] :
                  bs \in SeqsUpTo(SampleBasics, MaxRows),
                  as \in SeqsUpTo(SampleAkas, MaxRows)}
    /\ eqv = Off /\ mat = Off /\ mrg = Off
    /\ id_to_movie = Off /\ call = Off /\ pool_sem = 0
    /\ workers = <<>> /\ history = Off
    /\ nrm = Off /\ lst = Off

\* ImdbMovieSet(): the bulk build from the two files.
BuildBulk ==
    /\ ix.pc = "files"
    /\ LET movies == get_imdb_titles(ix.basics, ix.akas)
       IN  ix' = [ix EXCEPT !.pc = "built", !.mode = "bulk",
                            !.id_to_movie = movies,
                            !.name_to_id = NameToId(movies)]
    /\ UNCHANGED <<eqv, mat, mrg, id_to_movie, call, pool_sem, workers, history, nrm, lst>>

\* movie_set.write_to_sqlite() of the --update run.
WriteToSqlite ==
    /\ ix.pc = "built" /\ ix.mode = "bulk"
    /\ ix' = [ix EXCEPT !.pc = "stored",
                        !.db = write_to_sqlite(ix.db, ix.id_to_movie),
                        !.id_to_movie = EmptyDict, !.name_to_id = EmptyDict]
    /\ UNCHANGED <<eqv, mat, mrg, id_to_movie, call, pool_sem, workers, history, nrm, lst>>

\* ImdbMovieSet(from_movie_names=names): the scoped build from the store.
BuildScoped ==
    /\ ix.pc = "stored"
    /\ \E names \in SampleNameLists :
          LET movies == fetch_movies_from_name(ix.db, names)
          IN  ix' = [ix EXCEPT !.pc = "built", !.mode = "scoped",
                               !.id_to_movie = movies,
                               !.name_to_id = NameToId(movies)]
    /\ UNCHANGED <<eqv, mat, mrg, id_to_movie, call, pool_sem, workers, history, nrm, lst>>

LookupMovie ==
    /\ ix.pc = "built"
    /\ \E name \in SampleQueries :
          ix' = [ix EXCEPT !.pc = "looked", !.query = name,
                           !.result = lookup_movie(ix.id_to_movie, ix.name_to_id, name)]
    /\ UNCHANGED <<eqv, mat, mrg, id_to_movie, call, pool_sem, workers, history, nrm, lst>>

NextIndex == BuildBulk \/ WriteToSqlite \/ BuildScoped \/ LookupMovie

SpecIndex == InitIndex /\ [][NextIndex]_vars

HasVariant(entry, name) ==
    \E t \in entry.titles : normalize_movie_name(t) = normalize_movie_name(name)

IndexEntries == {ix.id_to_movie[id] : id \in DOMAIN ix.id_to_movie}

\* C10: for an index built in bulk or scoped mode and any query, lookup_movie
\* returns every entry of the index with a title variant that normalizes to
\* the normalized query, and no other entry.
C10_LookupByNormalizedTitle ==
    ix.pc = "looked" =>
        ix.result = {e \in IndexEntries : HasVariant(e, ix.query)}

\* A scoped index of two entries where the lookup found one of them through
\* a variant spelled differently from the query, and left the other out.
C10_Witness ==
    /\ ix.pc = "looked" /\ ix.mode = "scoped"
    /\ Cardinality(IndexEntries) = 2
    /\ Cardinality(ix.result) = 1
    /\ \A e \in ix.result : ix.query \notin e.titles

-----------------------------------------------------------------------------
(* imdb.py: enhance_data and the threads of enhance_movie_info *)

\* enhance_data returns at once without an imdb id, or when the entry is
\* already enhanced or already failed.
AlreadyEnhancedOnly(movie) == movie.enhanced

AlreadyEnhanced(movie) == movie.enhanced \/ movie.enhancement_error

SkipsEnhance(movie) == movie.imdb_id = "" \/ AlreadyEnhanced(movie)

\* The statements of the try block and of the except block, one by one.
Line139(movie, detail) == [movie EXCEPT !.detail = detail]
Line140(movie) ==
    [movie EXCEPT !.languages =
        @ \cup (IF "Language" \in DOMAIN movie.detail
                THEN movie.detail["Language"] ELSE {})]
Line141(movie) == [movie EXCEPT !.enhanced = TRUE]
Line142(movie) == [movie EXCEPT !.enhancement_error = FALSE]
Line144(movie) == [movie EXCEPT !.enhancement_error = TRUE]
Line145(movie) == [movie EXCEPT !.enhanced = FALSE]

\* What _get_title_from_imdb_dot_com can come back with: the page's details
\* with or without a Language section, or an exception.
DetailWithLanguage == [k \in {"Language"} |-> {<<"h", "i">>}]
DetailWithCountry == [k \in {"Country"} |-> {<<"I", "N">>}]

SampleFetches ==
    {[ok |-> TRUE, detail |-> DetailWithLanguage],
     [ok |-> TRUE, detail |-> DetailWithCountry],
     [ok |-> FALSE, detail |-> EmptyDict]}

\* enhance_data run from its first line to its return with no other thread
\* touching the entry.
enhance_data(movie, fetch) ==
    IF SkipsEnhance(movie) THEN movie
    ELSE IF fetch.ok
         THEN Line142(Line141(Line140(Line139(movie, fetch.detail))))
         ELSE Line145(Line144(movie))

\* threading.BoundedSemaphore(value=5)
POOL_SIZE == 5

\* acquire() goes through only while a slot is free.
CanAcquireAlways(sem) == TRUE

CanAcquire(sem) == sem > 0

is_empty_collection(inp) == inp.t = "list" /\ inp.v = <<>>

NoIds == [t |-> "none", v |-> <<>>]
IdList(l) == [t |-> "list", v |-> l]

Flags(movie) == <<movie.enhanced, movie.enhancement_error>>

\* No call yet.  at_call, fetched and again record, for the call under way,
\* the entries as it found them, the ids it sent a request for, and whether
\* it names the same ids as the call before it.
Idle == [pc |-> "idle", ids |-> <<>>, i |-> 1, ret |-> <<>>,
         at_call |-> EmptyDict, fetched |-> {}, again |-> FALSE]

\* list(imdb_ids) of line 232, after line 211.
IdsOf(imdb_ids, keys) ==
    IF is_empty_collection(imdb_ids) THEN <<>>
    ELSE IF imdb_ids.t = "list" /\ imdb_ids.v # <<>> THEN imdb_ids.v
    ELSE AsList(keys)

\* A thread as t.start() leaves it.
NewWorker(imdb_id) ==
    [pc |-> "start", movie |-> imdb_id, before |-> <<FALSE, FALSE>>,
     lock |-> "free"]

EnrichOthers == <<eqv, mat, mrg, ix, nrm, lst>>

\* enhance_movie_info(imdb_ids): an empty collection returns [] at once;
\* None stands for all the keys.  A new semaphore and a new ret are made.
EnhanceMovieInfo(imdb_ids) ==
    /\ call.pc \in {"idle", "returned"}
    /\ IF is_empty_collection(imdb_ids)
       THEN /\ call' = [Idle EXCEPT !.pc = "returned", !.at_call = id_to_movie,
                                     !.again = (call.pc = "returned" /\ call.ids = <<>>)]
            /\ UNCHANGED pool_sem
       ELSE /\ call' = [Idle EXCEPT
                          !.pc = "dispatch",
                          !.ids = IdsOf(imdb_ids, DOMAIN id_to_movie),
                          !.at_call = id_to_movie,
                          !.again = (/\ call.pc = "returned"
                                     /\ call.ids = IdsOf(imdb_ids, DOMAIN id_to_movie))]
            /\ pool_sem' = POOL_SIZE
    /\ workers' = <<>>
    /\ history' = [history EXCEPT !.calls = @ + 1]
    /\ UNCHANGED <<id_to_movie, EnrichOthers>>

\* One round of the dispatch loop: pool_sem.acquire(), then t.start().
Dispatch ==
    /\ call.pc = "dispatch"
    /\ call.i <= Len(call.ids)
    /\ CanAcquire(pool_sem)
    /\ pool_sem' = pool_sem - 1
    /\ workers' = Append(workers, NewWorker(call.ids[call.i]))
    /\ call' = [call EXCEPT !.i = @ + 1]
    /\ UNCHANGED <<id_to_movie, history, EnrichOthers>>

\* The loop is through: the joins begin.
DispatchDone ==
    /\ call.pc = "dispatch"
    /\ call.i > Len(call.ids)
    /\ call' = [call EXCEPT !.pc = "join"]
    /\ UNCHANGED <<id_to_movie, pool_sem, workers, history, EnrichOthers>>

\* Every t.join() has returned: ret is returned.
JoinAndReturn ==
    /\ call.pc = "join"
    /\ \A t \in 1..Len(workers) : workers[t].pc = "done"
    /\ call' = [call EXCEPT !.pc = "returned"]
    /\ UNCHANGED <<id_to_movie, pool_sem, workers, history, EnrichOthers>>

\* Line 219: the thread notes the flags it finds.
WorkerStart(t) ==
    /\ workers[t].pc = "start"
    /\ workers' = [workers EXCEPT ![t].pc = "check",
                                  ![t].before = Flags(id_to_movie[workers[t].movie])]
    /\ UNCHANGED <<id_to_movie, call, pool_sem, history, EnrichOthers>>

\* enhance_data, lines 134-137 and the request of line 139 going out.
WorkerCheck(t) ==
    /\ workers[t].pc = "check"
    /\ IF SkipsEnhance(id_to_movie[workers[t].movie])
       THEN /\ workers' = [workers EXCEPT ![t].pc = "release"]
            /\ UNCHANGED <<call, history>>
       ELSE /\ workers' = [workers EXCEPT ![t].pc = "fetch"]
            /\ call' = [call EXCEPT !.fetched = @ \cup {workers[t].movie}]
            /\ history' = [history EXCEPT !.fetches[workers[t].movie] = @ + 1]
    /\ UNCHANGED <<id_to_movie, pool_sem, EnrichOthers>>

\* The request comes back and line 139 stores the details.
WorkerFetchOk(t) ==
    /\ workers[t].pc = "fetch"
    /\ \E fetch \in {f \in SampleFetches : f.ok} :
          id_to_movie' = [id_to_movie EXCEPT ![workers[t].movie] = Line139(@, fetch.detail)]
    /\ workers' = [workers EXCEPT ![t].pc = "line140"]
    /\ UNCHANGED <<call, pool_sem, history, EnrichOthers>>

\* The request or the parsing raises.
WorkerFetchFail(t) ==
    /\ workers[t].pc = "fetch"
    /\ workers' = [workers EXCEPT ![t].pc = "line144"]
    /\ UNCHANGED <<id_to_movie, call, pool_sem, history, EnrichOthers>>

WorkerLine140(t) ==
    /\ workers[t].pc = "line140"
    /\ id_to_movie' = [id_to_movie EXCEPT ![workers[t].movie] = Line140(@)]
    /\ workers' = [workers EXCEPT ![t].pc = "line141"]
    /\ UNCHANGED <<call, pool_sem, history, EnrichOthers>>

WorkerLine141(t) ==
    /\ workers[t].pc = "line141"
    /\ id_to_movie' = [id_to_movie EXCEPT ![workers[t].movie] = Line141(@)]
    /\ workers' = [workers EXCEPT ![t].pc = "line142"]
    /\ UNCHANGED <<call, pool_sem, history, EnrichOthers>>

WorkerLine142(t) ==
    /\ workers[t].pc = "line142"
    /\ id_to_movie' = [id_to_movie EXCEPT ![workers[t].movie] = Line142(@)]
    /\ workers' = [workers EXCEPT ![t].pc = "release"]
    /\ UNCHANGED <<call, pool_sem, history, EnrichOthers>>

WorkerLine144(t) ==
    /\ workers[t].pc = "line144"
    /\ id_to_movie' = [id_to_movie EXCEPT ![workers[t].movie] = Line144(@)]
    /\ workers' = [workers EXCEPT ![t].pc = "line145"]
    /\ UNCHANGED <<call, pool_sem, history, EnrichOthers>>

WorkerLine145(t) ==
    /\ workers[t].pc = "line145"
    /\ id_to_movie' = [id_to_movie EXCEPT ![workers[t].movie] = Line145(@)]
    /\ workers' = [workers EXCEPT ![t].pc = "release"]
    /\ UNCHANGED <<call, pool_sem, history, EnrichOthers>>

\* Lines 219-221 in one piece, for a thread that is alone on its entry.
WorkerEnhance(t) ==
    /\ workers[t].pc = "start"
    /\ LET movie == id_to_movie[workers[t].movie]
       IN  /\ \E fetch \in SampleFetches :
                 id_to_movie' = [id_to_movie EXCEPT ![workers[t].movie] =
                                    enhance_data(movie, fetch)]
           /\ IF SkipsEnhance(movie)
              THEN UNCHANGED <<call, history>>
              ELSE /\ call' = [call EXCEPT !.fetched = @ \cup {workers[t].movie}]
                   /\ history' = [history EXCEPT !.fetches[workers[t].movie] = @ + 1]
           /\ workers' = [workers EXCEPT ![t].pc = "release",
                                         ![t].before = Flags(movie)]
    /\ UNCHANGED <<pool_sem, EnrichOthers>>

\* A thread that goes on without giving its slot back.
WorkerKeepsSlot(t) ==
    /\ workers[t].pc = "release"
    /\ workers' = [workers EXCEPT ![t].pc = "lock"]
    /\ UNCHANGED <<id_to_movie, call, pool_sem, history, EnrichOthers>>

\* finally: pool_sem.release()
WorkerRelease(t) ==
    /\ workers[t].pc = "release"
    /\ pool_sem' = pool_sem + 1
    /\ workers' = [workers EXCEPT ![t].pc = "lock"]
    /\ UNCHANGED <<id_to_movie, call, history, EnrichOthers>>

\* lock = threading.Lock(); with lock: the lock is the thread's own, made on
\* the line before, so it is free.
WorkerLock(t) ==
    /\ workers[t].pc = "lock"
    /\ workers[t].lock = "free"
    /\ workers' = [workers EXCEPT ![t].pc = "section", ![t].lock = "held"]
    /\ UNCHANGED <<id_to_movie, call, pool_sem, history, EnrichOthers>>

\* The body of the with block: the flags are compared with those noted, the
\* id is appended if they differ, and the lock is let go.
WorkerSection(t) ==
    /\ workers[t].pc = "section"
    /\ call' = [call EXCEPT !.ret =
                   IF Flags(id_to_movie[workers[t].movie]) # workers[t].before
                   THEN Append(@, id_to_movie[workers[t].movie].imdb_id)
                   ELSE @]
    /\ workers' = [workers EXCEPT ![t].pc = "done", ![t].lock = "free",
                                  ![t].before = <<FALSE, FALSE>>]
    /\ UNCHANGED <<id_to_movie, pool_sem, history, EnrichOthers>>

\* Lines 224-228 in one piece: the thread takes its own lock, compares,
\* appends and is done.
WorkerReport(t) ==
    /\ workers[t].pc = "lock"
    /\ workers[t].lock = "free"
    /\ call' = [call EXCEPT !.ret =
                   IF Flags(id_to_movie[workers[t].movie]) # workers[t].before
                   THEN Append(@, id_to_movie[workers[t].movie].imdb_id)
                   ELSE @]
    /\ workers' = [workers EXCEPT ![t].pc = "done", ![t].before = <<FALSE, FALSE>>]
    /\ UNCHANGED <<id_to_movie, pool_sem, history, EnrichOthers>>

\* An entry as the store or an earlier call left it.
FreshEntry(imdb_id) == ImdbMovieInfo(imdb_id, {<<"a">>}, StrV(Y2019))
EnhancedEntry(imdb_id) ==
    Line142(Line141(Line140(Line139(FreshEntry(imdb_id), DetailWithLanguage))))
FailedEntry(imdb_id) == Line145(Line144(FreshEntry(imdb_id)))

EntryStates(imdb_id) ==
    {FreshEntry(imdb_id), EnhancedEntry(imdb_id), FailedEntry(imdb_id)}

SampleIds == {"tt1", "tt2"}

\* The id lists callers pass: none, one id, two ids, and lists naming an
\* entry more than once.
SampleIdLists ==
    {<<>>, <<"tt1">>, <<"tt1", "tt2">>, <<"tt1", "tt1">>, <<"tt2", "tt1", "tt1">>}

MaxCalls == 2

InitEnrich ==
    /\ id_to_movie \in {m \in [SampleIds -> UNION {EntryStates(id) : id \in SampleIds}] :
                          \A id \in SampleIds : m[id].imdb_id = id}
    /\ call = Idle
    /\ pool_sem = POOL_SIZE
    /\ workers = <<>>
    /\ history = [calls |-> 0, fetches |-> [id \in SampleIds |-> 0]]
    /\ eqv = Off /\ mat = Off /\ mrg = Off /\ ix = Off
    /\ nrm = Off /\ lst = Off

\* A caller passes a list of ids of the set, possibly naming an id twice, or
\* nothing.
EnhanceCall ==
    /\ history.calls < MaxCalls
    /\ \E imdb_ids \in {NoIds} \cup {IdList(l) : l \in SampleIdLists} :
          EnhanceMovieInfo(imdb_ids)

NextEnrich ==
    \/ EnhanceCall
    \/ Dispatch
    \/ DispatchDone
    \/ JoinAndReturn
    \/ \E t \in 1..Len(workers) : WorkerStart(t)
    \/ \E t \in 1..Len(workers) : WorkerCheck(t)
    \/ \E t \in 1..Len(workers) : WorkerFetchOk(t)
    \/ \E t \in 1..Len(workers) : WorkerFetchFail(t)
    \/ \E t \in 1..Len(workers) : WorkerLine140(t)
    \/ \E t \in 1..Len(workers) : WorkerLine141(t)
    \/ \E t \in 1..Len(workers) : WorkerLine142(t)
    \/ \E t \in 1..Len(workers) : WorkerLine144(t)
    \/ \E t \in 1..Len(workers) : WorkerLine145(t)
    \/ \E t \in 1..Len(workers) : WorkerRelease(t)
    \/ \E t \in 1..Len(workers) : WorkerLock(t)
    \/ \E t \in 1..Len(workers) : WorkerSection(t)

SpecEnrich == InitEnrich /\ [][NextEnrich]_vars

\* The whole set enhanced in one call, as the fetchers do it: more entries
\* than the pool has slots, each thread alone on its entry.  Most entries
\* were enhanced, or failed, in an earlier run; two are new.
PoolIdNames == <<"tt1", "tt2", "tt3", "tt4", "tt5", "tt6", "tt7", "tt8">>

MaxPoolMovies == 6

PoolIds == {PoolIdNames[i] : i \in 1..MaxPoolMovies}

PoolEntry(imdb_id) ==
    IF imdb_id \in {"tt1", "tt4"} THEN FreshEntry(imdb_id)
    ELSE IF imdb_id \in {"tt2", "tt5", "tt7"} THEN EnhancedEntry(imdb_id)
    ELSE FailedEntry(imdb_id)

InitPool ==
    /\ id_to_movie = [id \in PoolIds |-> PoolEntry(id)]
    /\ call = Idle
    /\ pool_sem = POOL_SIZE
    /\ workers = <<>>
    /\ history = [calls |-> 0, fetches |-> [id \in PoolIds |-> 0]]
    /\ eqv = Off /\ mat = Off /\ mrg = Off /\ ix = Off
    /\ nrm = Off /\ lst = Off

EnhanceAll ==
    /\ history.calls = 0
    /\ EnhanceMovieInfo(NoIds)

NextPool ==
    \/ EnhanceAll
    \/ Dispatch
    \/ DispatchDone
    \/ JoinAndReturn
    \/ \E t \in 1..Len(workers) : WorkerEnhance(t)
    \/ \E t \in 1..Len(workers) : WorkerRelease(t)
    \/ \E t \in 1..Len(workers) : WorkerReport(t)

SpecPool == InitPool /\ [][NextPool]_vars

\* The scheduler does not stall the program: while the calling thread can
\* take a step it takes one in the end, and while some started thread can
\* take a step one of them does.  A request that is under way comes back,
\* with details or with an exception.
MainStep == Dispatch \/ DispatchDone \/ JoinAndReturn

WorkerStep ==
    \E t \in 1..Len(workers) :
        WorkerEnhance(t) \/ WorkerRelease(t) \/ WorkerReport(t)

FairPool == WF_vars(MainStep) /\ WF_vars(WorkerStep)

SpecPoolLive == InitPool /\ [][NextPool]_vars /\ FairPool

\* Threads that were started and have not finished, and those of them that
\* still hold the slot the dispatch loop acquired for them.
Unfinished == {t \in 1..Len(workers) : workers[t].pc # "done"}
HoldingSlot == {t \in 1..Len(workers) : workers[t].pc \notin {"lock", "section", "done"}}
InSection == {t \in 1..Len(workers) : workers[t].pc = "section"}

\* C5 as stated: at every moment at most POOL_SIZE threads are started and
\* not yet finished.
C5_Original == Cardinality(Unfinished) <= POOL_SIZE

\* C5: at every moment at most POOL_SIZE threads are started and have not yet
\* given their slot back, and the semaphore counts exactly the free slots.
C5_SlotHoldersBounded ==
    /\ Cardinality(HoldingSlot) <= POOL_SIZE
    /\ pool_sem = POOL_SIZE - Cardinality(HoldingSlot)

\* Every slot is taken while ids are still waiting to be dispatched.
C5_Witness ==
    /\ call.pc = "dispatch"
    /\ call.i <= Len(call.ids)
    /\ Cardinality(HoldingSlot) = POOL_SIZE
    /\ pool_sem = 0

\* C6: no two threads are at once inside the section that compares the flags
\* and appends to ret.
C6_OneInSection == Cardinality(InSection) <= 1

Count(seq, x) == Cardinality({i \in 1..Len(seq) : seq[i] = x})

\* C7: when the call has returned every thread is done, and ret holds each id
\* whose flags differ from those at the start of the call once, and no other.
C7_ReturnsChangedOnce ==
    call.pc = "returned" =>
        /\ Unfinished = {}
        /\ \A id \in DOMAIN id_to_movie :
              Count(call.ret, id) =
                 (IF Flags(id_to_movie[id]) # Flags(call.at_call[id]) THEN 1 ELSE 0)

\* An entry that was enhanced or in error when the call began gets no
\* request, keeps its fields and is not in ret.
DoneEntriesUntouched ==
    \A id \in DOMAIN call.at_call :
        AlreadyEnhanced(call.at_call[id]) =>
            /\ id \notin call.fetched
            /\ id_to_movie[id] = call.at_call[id]
            /\ Count(call.ret, id) = 0

\* C8: an entry already enhanced or in error is left alone by a call, and a
\* call naming the same ids as the call before it returns an empty list.
C8_Idempotent ==
    /\ DoneEntriesUntouched
    /\ (call.pc = "returned" /\ call.again) => call.ret = <<>>

\* C14: over all the calls made, the request for an entry's details goes out
\* at most once, and when a call that sent it has returned the entry is
\* enhanced or in error, and not both.
C14_FetchedAtMostOnce ==
    /\ \A id \in DOMAIN history.fetches : history.fetches[id] <= 1
    /\ call.pc = "returned" =>
          \A id \in call.fetched :
              id_to_movie[id].enhanced # id_to_movie[id].enhancement_error

\* C13: a call that has begun to dispatch returns in the end, whatever the
\* requests come back with; so its dispatch loop is never held up for good
\* by a slot that no thread gives back.
C13_EnrichReturns == (call.pc = "dispatch") ~> (call.pc = "returned")

\* The call over more entries than slots has returned, one request having
\* succeeded and one having failed.
C13_Witness ==
    /\ call.pc = "returned"
    /\ Len(workers) > POOL_SIZE
    /\ pool_sem = POOL_SIZE
    /\ id_to_movie["tt1"].enhanced /\ "tt1" \in call.fetched
    /\ id_to_movie["tt4"].enhancement_error /\ "tt4" \in call.fetched

-----------------------------------------------------------------------------
(* catalog_fetcher.py: the source adapters that build listings *)

DigitChars == <<"0", "1", "2", "3", "4", "5", "6", "7", "8", "9">>
IsDigit(c) == \E i \in 1..Len(DigitChars) : DigitChars[i] = c
DigitValue(c) == (CHOOSE i \in 1..Len(DigitChars) : DigitChars[i] = c) - 1

RECURSIVE DigitsValue(_, _)
DigitsValue(s, acc) ==
    IF s = <<>> THEN acc ELSE DigitsValue(Tail(s), 10 * acc + DigitValue(Head(s)))

\* int(inp) for the values met here: an int is itself; a str is read after
\* its surrounding blanks are dropped, as an optional sign and one or more
\* digits; anything else (and None) raises.
IntOf(inp) ==
    IF inp.t = "int" THEN [exc |-> "", val |-> inp.v]
    ELSE IF inp.t # "str" THEN [exc |-> "TypeError", val |-> 0]
    ELSE LET body == Strip(inp.v)
             signed == body # <<>> /\ Head(body) \in {"-", "+"}
             digits == IF signed THEN Tail(body) ELSE body
         IN  IF digits # <<>> /\ \A i \in 1..Len(digits) : IsDigit(digits[i])
             THEN [exc |-> "",
                   val |-> IF signed /\ Head(body) = "-"
                           THEN 0 - DigitsValue(digits, 0)
                           ELSE DigitsValue(digits, 0)]
             ELSE [exc |-> "ValueError", val |-> 0]

\* tryint returns the default whatever int() raises.
tryint(inp, default) ==
    IF IntOf(inp).exc = "" THEN IntV(IntOf(inp).val) ELSE default

\* s.strip("/") and the last piece of s.split("/").
RECURSIVE LStripSlash(_)
LStripSlash(s) == IF s # <<>> /\ Head(s) = "/" THEN LStripSlash(Tail(s)) ELSE s

RECURSIVE RStripSlash(_)
RStripSlash(s) ==
    IF s # <<>> /\ s[Len(s)] = "/" THEN RStripSlash(SubSeq(s, 1, Len(s) - 1)) ELSE s

RECURSIVE LastSegment(_)
LastSegment(s) ==
    IF s = <<>> \/ s[Len(s)] = "/" THEN <<>>
    ELSE Append(LastSegment(SubSeq(s, 1, Len(s) - 1)), s[Len(s)])

\* inp[:4]
Take4(s) == SubSeq(s, 1, IF Len(s) < 4 THEN Len(s) ELSE 4)

\* A key the record does not have.
Missing == [t |-> "missing", v |-> 0]

\* from_whats_on_netflix(entry): the year is entry["titlereleased"] as it is.
from_whats_on_netflix(entry) ==
    [exc |-> "",
     val |-> MovieInfo(entry.title,
                       <<[key |-> WON, val |-> RawEntry(StrV(entry.netflixid), entry)]>>,
                       entry.titlereleased,
                       <<PlatformId(NETFLIX, entry.netflixid)>>)]

\* from_finder(provider, bs_entry), data being the row as a dict.
from_finder(provider, data) ==
    LET provider_id == IF provider = NETFLIX
                       THEN LastSegment(RStripSlash(LStripSlash(data.watch_link)))
                       ELSE <<"N", "A", "_">> \o data.Title
    IN  [exc |-> "",
         val |-> MovieInfo(data.Title,
                           <<[key |-> "finder.com:" \o provider,
                              val |-> RawEntry(NoneV, data)]>>,
                           tryint(StrV(data.year_of_release), IntV(-1)),
                           <<PlatformId(provider, provider_id)>>)]

\* The MovieInfo(...) of fetch_from_reelgood for one result m of a page.
\* m.get('released_on', '-1') is '-1' only when the key is missing; a null
\* is returned as None, and None[:4] raises outside tryint.
from_reelgood(provider, m) ==
    LET released_on == IF m.released_on = Missing
                       THEN StrV(<<"-", "1">>)
                       ELSE m.released_on
    IN  IF released_on.t # "str"
        THEN [exc |-> "TypeError", val |-> Off]
        ELSE [exc |-> "",
              val |-> MovieInfo(m.title,
                                <<[key |-> "reelgood:" \o provider,
                                   val |-> RawEntry(NoneV, m)]>>,
                                tryint(StrV(Take4(released_on.v)), IntV(-1)),
                                <<PlatformId(provider, Slug \o <<"_">> \o m.slug)>>)]

\* Years as the sources spell them: a year, nothing, a word, a year after a
\* blank; and a date, as reelgood gives it.
YearWithBlank == <<" ">> \o Y2019
YearWord == <<"n", "/", "a">>
ReleaseDate == Y2019 \o <<"-", "0", "5", "-", "0", "1">>

SampleYearTexts == {Y2019, <<>>, YearWord, YearWithBlank}
SampleReleasedOn == {Missing, NoneV, StrV(ReleaseDate), StrV(<<>>), StrV(YearWord)}
SampleIdTexts == {<<"1">>, <<"2">>}
SampleWatchLinks == {<<"h", "/", "w", "/">> \o id \o tail :
                        id \in SampleIdTexts, tail \in {<<>>, <<"/">>}}
SampleProviders == {NETFLIX, AMAZON_PRIME}

SampleWonEntries ==
    {[title |-> t, titlereleased |-> StrV(y), netflixid |-> id] :
        t \in SampleTitles, y \in SampleYearTexts, id \in SampleIdTexts}
SampleFinderRows ==
    {[Title |-> t, year_of_release |-> y, watch_link |-> l] :
        t \in SampleTitles, y \in SampleYearTexts, l \in SampleWatchLinks}
SampleReelgoodResults ==
    {[title |-> t, released_on |-> r, slug |-> <<"a">>] :
        t \in SampleTitles, r \in SampleReleasedOn}

AdapterOthers ==
    <<eqv, mat, mrg, ix, id_to_movie, call, pool_sem, workers, history, nrm>>

InitAdapters ==
    /\ lst = [pc |-> "ready", adapter |-> "", year |-> Missing, result |-> Off]
    /\ eqv = Off /\ mat = Off /\ mrg = Off /\ ix = Off /\ nrm = Off
    /\ id_to_movie = Off /\ call = Off /\ pool_sem = 0
    /\ workers = <<>> /\ history = Off

FromWhatsOnNetflix ==
    /\ lst.pc = "ready"
    /\ \E entry \in SampleWonEntries :
          lst' = [pc |-> "made", adapter |-> WON, year |-> entry.titlereleased,
                  result |-> from_whats_on_netflix(entry)]
    /\ UNCHANGED AdapterOthers

FromFinder ==
    /\ lst.pc = "ready"
    /\ \E provider \in SampleProviders, data \in SampleFinderRows :
          lst' = [pc |-> "made", adapter |-> "finder.com:" \o provider,
                  year |-> StrV(data.year_of_release),
                  result |-> from_finder(provider, data)]
    /\ UNCHANGED AdapterOthers

FromReelgood ==
    /\ lst.pc = "ready"
    /\ \E provider \in SampleProviders, m \in SampleReelgoodResults :
          lst' = [pc |-> "made", adapter |-> "reelgood:" \o provider,
                  year |-> m.released_on,
                  result |-> from_reelgood(provider, m)]
    /\ UNCHANGED AdapterOthers

NextAdapters == FromWhatsOnNetflix \/ FromFinder \/ FromReelgood

SpecAdapters == InitAdapters /\ [][NextAdapters]_vars

\* C15: a listing an adapter has made has an int for its year: the source's
\* year where the source gives one, and -1 where it gives none or one that
\* cannot be read.
C15_ReleaseYearIsInt ==
    (lst.pc = "made" /\ lst.result.exc = "") =>
        LET release_yr == lst.result.val.release_yr
            readable == lst.year \in {StrV(Y2019), StrV(YearWithBlank), StrV(ReleaseDate)}
        IN  /\ release_yr.t = "int"
            /\ release_yr.v = (IF readable THEN 2019 ELSE -1)

-----------------------------------------------------------------------------
(* normalize_movie_name applied to a string and to its own result *)

\* Letters of both cases, a digit, the underscore, a space and a
\* punctuation mark.
SampleChars == {"a", "B", "1", "_", " ", "-"}

MaxLen == 4

InitNormalize ==
    /\ nrm \in {[pc |-> "given", inp |-> s, once |-> <<>>, twice |-> <<>>] :
                  s \in SeqsUpTo(SampleChars, MaxLen)}
    /\ eqv = Off /\ mat = Off /\ mrg = Off /\ ix = Off /\ lst = Off
    /\ id_to_movie = Off /\ call = Off /\ pool_sem = 0
    /\ workers = <<>> /\ history = Off

NormalizeOthers ==
    <<eqv, mat, mrg, ix, id_to_movie, call, pool_sem, workers, history, lst>>

NormalizeOnce ==
    /\ nrm.pc = "given"
    /\ nrm' = [nrm EXCEPT !.pc = "once", !.once = normalize_movie_name(nrm.inp)]
    /\ UNCHANGED NormalizeOthers

NormalizeAgain ==
    /\ nrm.pc = "once"
    /\ nrm' = [nrm EXCEPT !.pc = "twice", !.twice = normalize_movie_name(nrm.once)]
    /\ UNCHANGED NormalizeOthers

NextNormalize == NormalizeOnce \/ NormalizeAgain

SpecNormalize == InitNormalize /\ [][NextNormalize]_vars

\* Lower-case letters, digits and single spaces, with no space at either end.
NormalForm(s) ==
    /\ \A i \in 1..Len(s) : s[i] \in LowerLetters \cup Digits \cup {" "}
    /\ \A i \in 1..(Len(s) - 1) : ~(s[i] = " " /\ s[i + 1] = " ")
    /\ s # <<>> => (s[1] # " " /\ s[Len(s)] # " ")

\* C11: normalizing a normalized string gives the same string, and a
\* normalized string is lower-case words separated by single spaces.
C11_NormalizeIdempotent ==
    /\ nrm.pc \in {"once", "twice"} => NormalForm(nrm.once)
    /\ nrm.pc = "twice" => nrm.twice = nrm.once

\* A string with an upper-case letter and a run of two in its middle was
\* normalized twice.
C11_Witness ==
    /\ nrm.pc = "twice"
    /\ nrm.inp = <<"B", "-", "_", "1">>
    /\ nrm.once = <<"b", " ", "1">>

====